---- MODULE Spec2Model ----
(***************************************************************************)
(* Model of udcode.py: Converter.file_to_image / Converter.image_to_file   *)
(* and their helpers.  Bytes are integers 0..255, bit strings are          *)
(* sequences over {0,1} (most significant bit first, as format(b,'08b')),  *)
(* colours are RGB triples, a canvas is a pixel size plus the solid colour *)
(* of each painted PIXEL_SIZE x PIXEL_SIZE rectangle.                      *)
(***************************************************************************)
EXTENDS Integers, Sequences, FiniteSets, TLC

VARIABLES
    input, compress, pc, err,
    full_data, color_indices, grid_size, data_grid, sent, canvas, tamper,
    dverbose, dgrid, dsyms, dbytes, hdr, data, actual_crc, warned, out, ref,
    gn, gsize, gwidth, gdec, gpc,
    pix, pidx, ppc,
    pbytes, psyms, pout, kpc

vars == <<input, compress, pc, err,
          full_data, color_indices, grid_size, data_grid, sent, canvas, tamper,
          dverbose, dgrid, dsyms, dbytes, hdr, data, actual_crc, warned, out, ref,
          gn, gsize, gwidth, gdec, gpc,
          pix, pidx, ppc,
          pbytes, psyms, pout, kpc>>

mainVars == <<input, compress, pc, err,
              full_data, color_indices, grid_size, data_grid, sent, canvas, tamper,
              dverbose, dgrid, dsyms, dbytes, hdr, data, actual_crc, warned, out, ref>>
decodeVars == <<dverbose, dgrid, dsyms, dbytes, hdr, data, actual_crc, warned, out>>
gridVars == <<gn, gsize, gwidth, gdec, gpc>>
palVars  == <<pix, pidx, ppc>>
packVars == <<pbytes, psyms, pout, kpc>>

----------------------------------------------------------------------------
(* Bounds of the model *)

MaxLen == 1
MaxPackLen == 3
MaxSymbols == 130
Noise == 10

ByteVals == {65, 255}
PackByteVals == {0, 1, 37, 128, 170, 255}

----------------------------------------------------------------------------
(* Program constants *)

PALETTE == <<
    <<0, 0, 0>>,
    <<255, 0, 0>>,
    <<0, 255, 0>>,
    <<0, 0, 255>>,
    <<255, 255, 0>>,
    <<255, 0, 255>>,
    <<0, 255, 255>>,
    <<255, 255, 255>> >>

MARKER_SIZE == 3
PIXEL_SIZE == 8
HeaderSize == 13

Black == <<0, 0, 0>>
White == <<255, 255, 255>>

\* PALETTE[idx] with the 0-based index of the Python list
Palette(idx) == PALETTE[idx + 1]

----------------------------------------------------------------------------
(* Generic helpers *)

Min(a, b) == IF a < b THEN a ELSE b

RECURSIVE Pow2(_)
Pow2(n) == IF n = 0 THEN 1 ELSE 2 * Pow2(n - 1)

RECURSIVE SeqsUpTo(_, _)
SeqsUpTo(S, n) ==
    IF n = 0 THEN {<<>>}
    ELSE LET shorter == SeqsUpTo(S, n - 1)
         IN  shorter \cup {Append(s, x) : s \in shorter, x \in S}

\* a sequence given as a function, as an explicit tuple
Seq1(f) == SubSeq(f, 1, Len(f))

\* format(v, '0<w>b'): the w low bits of v, most significant first
FormatBits(v, w) == Seq1([i \in 1..w |-> (v \div Pow2(w - i)) % 2])

\* int(bits, 2)
RECURSIVE BitsToInt(_)
BitsToInt(bits) ==
    IF bits = <<>> THEN 0
    ELSE 2 * BitsToInt(SubSeq(bits, 1, Len(bits) - 1)) + bits[Len(bits)]

\* bits of a byte sequence, ''.join(format(b, '08b') for b in bs)
BytesToBits(bs) ==
    Seq1([i \in 1..(8 * Len(bs)) |->
            FormatBits(bs[((i - 1) \div 8) + 1], 8)[((i - 1) % 8) + 1]])

\* the bytes of a bit string whose length is a multiple of 8
BitsToBytes(bits) ==
    Seq1([k \in 1..(Len(bits) \div 8) |->
            BitsToInt(SubSeq(bits, 8 * (k - 1) + 1, 8 * k))])

\* Python slice s[a:b] with 0 <= a, 0-based, clipped to the sequence
Slice(s, a, b) == SubSeq(s, a + 1, Min(b, Len(s)))

----------------------------------------------------------------------------
(* zlib.crc32: the reflected CRC-32 (polynomial 0xEDB88320), initial value  *)
(* and final xor 0xFFFFFFFF.  The 32-bit register is a bit sequence, most   *)
(* significant bit first, so that no 32-bit value has to fit an integer.    *)

CrcPoly == <<1,1,1,0, 1,1,0,1, 1,0,1,1, 1,0,0,0, 1,0,0,0, 0,0,1,1, 0,0,1,0, 0,0,0,0>>
Ones32  == Seq1([i \in 1..32 |-> 1])
Zeros32 == Seq1([i \in 1..32 |-> 0])

Xor32(a, b) == Seq1([i \in 1..32 |-> (a[i] + b[i]) % 2])

CrcShift(reg) ==
    LET shifted == <<0>> \o SubSeq(reg, 1, 31)
    IN  IF reg[32] = 1 THEN Xor32(shifted, CrcPoly) ELSE shifted

RECURSIVE CrcShifts(_, _)
CrcShifts(reg, n) == IF n = 0 THEN reg ELSE CrcShift(CrcShifts(reg, n - 1))

\* crc_table[n]: n shifted through the polynomial 8 times
CrcTable(n) == CrcShifts(SubSeq(Zeros32, 1, 24) \o n, 8)

\* crc = crc_table[(crc ^ b) & 0xff] ^ (crc >> 8)
\* (the test of the register's width has TLC evaluate the register first:
\* operator arguments are evaluated lazily, and the steps would nest)
CrcByte(reg, b) ==
    IF Len(reg) # 32 THEN reg
    ELSE LET low == SubSeq(Xor32(reg, SubSeq(Zeros32, 1, 24) \o FormatBits(b, 8)), 25, 32)
         IN  Xor32(CrcTable(low), SubSeq(Zeros32, 1, 8) \o SubSeq(reg, 1, 24))

\* the register after the bytes bs, from the initial value 0xFFFFFFFF
RECURSIVE CrcBytes(_)
CrcBytes(bs) ==
    IF bs = <<>> THEN Ones32
    ELSE CrcByte(CrcBytes(SubSeq(bs, 1, Len(bs) - 1)), bs[Len(bs)])

\* a mutant of Crc32: a checksum that ignores the data
Crc32Blind(bs) == Zeros32

\* zlib.crc32(bs) & 0xFFFFFFFF, as 32 bits
Crc32(bs) == Xor32(CrcBytes(bs), Ones32)

----------------------------------------------------------------------------
(* zlib.compress / zlib.decompress.  zlib is a library: the model is the    *)
(* zlib container (RFC 1950) around one stored deflate block (RFC 1951),    *)
(* a stream zlib.decompress inverts: CMF FLG, 0x01 LEN NLEN, the bytes,     *)
(* Adler-32 big-endian.  Streams of any other shape are rejected.           *)

RECURSIVE AdlerA(_)
AdlerA(bs) == IF bs = <<>> THEN 1 ELSE (AdlerA(SubSeq(bs, 1, Len(bs) - 1)) + bs[Len(bs)]) % 65521

RECURSIVE AdlerB(_)
AdlerB(bs) == IF bs = <<>> THEN 0 ELSE (AdlerB(SubSeq(bs, 1, Len(bs) - 1)) + AdlerA(bs)) % 65521

Adler32(bs) ==
    << AdlerB(bs) \div 256, AdlerB(bs) % 256, AdlerA(bs) \div 256, AdlerA(bs) % 256 >>

ZlibHeader == <<120, 218>>

StoredBlock(bs) ==
    << 1, Len(bs) % 256, Len(bs) \div 256,
       255 - (Len(bs) % 256), 255 - (Len(bs) \div 256) >> \o bs

compress_data(bs) == ZlibHeader \o StoredBlock(bs) \o Adler32(bs)

\* [ok |-> FALSE] when zlib.decompress raises
decompress_data(cs) ==
    IF Len(cs) < 11 \/ SubSeq(cs, 1, 2) # ZlibHeader \/ cs[3] # 1
    THEN [ok |-> FALSE, bytes |-> <<>>]
    ELSE LET n    == cs[4] + 256 * cs[5]
             body == SubSeq(cs, 8, Len(cs) - 4)
         IN  IF /\ cs[6] = 255 - cs[4]
                /\ cs[7] = 255 - cs[5]
                /\ Len(cs) = n + 11
                /\ SubSeq(cs, Len(cs) - 3, Len(cs)) = Adler32(body)
             THEN [ok |-> TRUE, bytes |-> body]
             ELSE [ok |-> FALSE, bytes |-> <<>>]

----------------------------------------------------------------------------
(* Frame: struct.pack('>III?', len(data), original_size, checksum, compress) *)

\* a u32 below 2^31 as 4 big-endian bytes
PackU32(n) == << (n \div 16777216) % 256, (n \div 65536) % 256, (n \div 256) % 256, n % 256 >>

PackHeader(size, original_size, checksum, flag) ==
    PackU32(size) \o PackU32(original_size) \o BitsToBytes(checksum)
        \o << IF flag THEN 1 ELSE 0 >>

\* struct.unpack('>III?', ...): a u32 is kept as its two 16-bit halves, the
\* checksum as its 32 bits, and '?' is true for every nonzero byte
UnpackHeader(bs) ==
    [ compressed_size |-> [hi |-> 256 * bs[1] + bs[2], lo |-> 256 * bs[3] + bs[4]],
      original_size   |-> [hi |-> 256 * bs[5] + bs[6], lo |-> 256 * bs[7] + bs[8]],
      expected_crc    |-> BytesToBits(SubSeq(bs, 9, 12)),
      compress_flag   |-> bs[13] # 0 ]

NoHeader ==
    [ compressed_size |-> [hi |-> 0, lo |-> 0],
      original_size   |-> [hi |-> 0, lo |-> 0],
      expected_crc    |-> Zeros32,
      compress_flag   |-> FALSE ]

\* len(s) >= n for a u32 n kept as halves
AtLeast(len, n) == n.hi = 0 /\ len >= n.lo

\* a mutant of SliceBody: byte_array[13:], the declared length is not used
SliceBodyAll(bs, n) == Slice(bs, HeaderSize, Len(bs))

\* byte_array[13:13+compressed_size]
SliceBody(bs, n) ==
    IF n.hi > 0 THEN Slice(bs, HeaderSize, Len(bs))
    ELSE Slice(bs, HeaderSize, HeaderSize + n.lo)

----------------------------------------------------------------------------
(* Bit packer *)

RECURSIVE PadBits(_)
PadBits(bits) == IF Len(bits) % 3 # 0 THEN PadBits(Append(bits, 0)) ELSE bits

\* a mutant of Pack: the 3-bit groups are read least significant bit first
PackLsbFirst(bs) ==
    LET bit_string == PadBits(BytesToBits(bs))
    IN  Seq1([k \in 1..(Len(bit_string) \div 3) |->
            bit_string[3 * k - 2] + 2 * bit_string[3 * k - 1] + 4 * bit_string[3 * k]])

\* file_to_image: bytes to 3-bit colour indices
Pack(bs) ==
    LET bit_string == PadBits(BytesToBits(bs))
    IN  Seq1([k \in 1..(Len(bit_string) \div 3) |->
            BitsToInt(SubSeq(bit_string, 3 * k - 2, 3 * k))])

\* len(range(0, stop, 8))
RangeLen8(stop) == IF stop <= 0 THEN 0 ELSE ((stop - 1) \div 8) + 1

\* image_to_file: colour indices to bytes
Unpack(syms) ==
    LET bit_string == Seq1([i \in 1..(3 * Len(syms)) |->
                          FormatBits(syms[((i - 1) \div 3) + 1], 3)[((i - 1) % 3) + 1]])
    IN  Seq1([k \in 1..RangeLen8(Len(bit_string) - 7) |->
            BitsToInt(SubSeq(bit_string, 8 * (k - 1) + 1, 8 * k))])

----------------------------------------------------------------------------
(* Grid *)

count_data_positions(size) == size * size - 4 * MARKER_SIZE * MARKER_SIZE

RECURSIVE GrowWhileLeq(_, _)
GrowWhileLeq(g, n) ==
    IF count_data_positions(g) <= n THEN GrowWhileLeq(g + 1, n) ELSE g

\* a mutant of ComputeGridSize: the loop runs while the grid is just full
ComputeGridSizeLeq(n) == GrowWhileLeq(2 * MARKER_SIZE, n)

RECURSIVE GrowWhile(_, _)
GrowWhile(g, n) ==
    IF count_data_positions(g) < n THEN GrowWhile(g + 1, n) ELSE g

\* grid_size = 2 * m; while count_data_positions(grid_size) < n: grid_size += 1
ComputeGridSize(n) == GrowWhile(2 * MARKER_SIZE, n)

\* a mutant of IsMarkerEnc: the right and bottom blocks are one cell narrower
IsMarkerEncOff(col, row, w, h) ==
    \/ col < MARKER_SIZE /\ row < MARKER_SIZE
    \/ col > w - MARKER_SIZE /\ row < MARKER_SIZE
    \/ col < MARKER_SIZE /\ row > h - MARKER_SIZE
    \/ col > w - MARKER_SIZE /\ row > h - MARKER_SIZE

\* the marker test of the encoder's assignment loop
IsMarkerEnc(col, row, w, h) ==
    LET is_top_left     == col < MARKER_SIZE /\ row < MARKER_SIZE
        is_top_right    == col >= w - MARKER_SIZE /\ row < MARKER_SIZE
        is_bottom_left  == col < MARKER_SIZE /\ row >= h - MARKER_SIZE
        is_bottom_right == col >= w - MARKER_SIZE /\ row >= h - MARKER_SIZE
    IN  is_top_left \/ is_top_right \/ is_bottom_left \/ is_bottom_right

\* the marker test of the decoder's sampling loop
IsMarkerDec(col, row, w, h) ==
    LET is_top_left     == col < MARKER_SIZE /\ row < MARKER_SIZE
        is_top_right    == col >= w - MARKER_SIZE /\ row < MARKER_SIZE
        is_bottom_left  == col < MARKER_SIZE /\ row >= h - MARKER_SIZE
        is_bottom_right == col >= w - MARKER_SIZE /\ row >= h - MARKER_SIZE
    IN  is_top_left \/ is_top_right \/ is_bottom_left \/ is_bottom_right

Min4(a, b, c, d) == Min(Min(a, b), Min(c, d))

\* _get_marker_color: the pair (is_marker, colour)
get_marker_color(col, row, w, h) ==
    IF col < MARKER_SIZE /\ row < MARKER_SIZE
    THEN [is_marker |-> TRUE, color |-> IF (col + row) % 2 = 0 THEN White ELSE Black]
    ELSE IF col >= w - MARKER_SIZE /\ row < MARKER_SIZE
    THEN LET dx == col - (w - MARKER_SIZE)
         IN  [is_marker |-> TRUE, color |-> IF dx % 2 = 0 THEN Black ELSE White]
    ELSE IF col < MARKER_SIZE /\ row >= h - MARKER_SIZE
    THEN LET dy == row - (h - MARKER_SIZE)
         IN  [is_marker |-> TRUE, color |-> IF dy % 2 = 0 THEN Black ELSE White]
    ELSE IF col >= w - MARKER_SIZE /\ row >= h - MARKER_SIZE
    THEN LET dx == col - (w - MARKER_SIZE)
             dy == row - (h - MARKER_SIZE)
             dist == Min4(dx, dy, MARKER_SIZE - 1 - dx, MARKER_SIZE - 1 - dy)
         IN  [is_marker |-> TRUE, color |-> IF dist % 2 = 0 THEN Black ELSE White]
    ELSE [is_marker |-> FALSE, color |-> Black]

Cells(w, h) == (0..(w - 1)) \X (0..(h - 1))

\* The inner loop of the assignment: a data cell takes the next colour index;
\* StopIteration breaks this loop only.
RECURSIVE AssignRow(_, _, _, _, _, _)
AssignRow(row, col, w, h, rest, grid) ==
    IF col >= w THEN [rest |-> rest, grid |-> grid]
    ELSE IF IsMarkerEnc(col, row, w, h) THEN AssignRow(row, col + 1, w, h, rest, grid)
    ELSE IF rest = <<>> THEN [rest |-> rest, grid |-> grid]
    ELSE AssignRow(row, col + 1, w, h, Tail(rest), grid @@ (<<col, row>> :> Head(rest)))

\* The outer loop: every row is visited, also after the indices ran out.
RECURSIVE AssignRows(_, _, _, _, _)
AssignRows(row, w, h, rest, grid) ==
    IF row >= h THEN grid
    ELSE LET r == AssignRow(row, 0, w, h, rest, grid)
         IN  AssignRows(row + 1, w, h, r.rest, r.grid)

EmptyGrid == [c \in {} |-> 0]

Assign(syms, g) == AssignRows(0, g, g, syms, EmptyGrid)

\* The paint loop: the colour of each cell's rectangle
Paint(grid, g) ==
    [ width  |-> g * PIXEL_SIZE,
      height |-> g * PIXEL_SIZE,
      cells  |-> [c \in Cells(g, g) |->
                    LET mk == get_marker_color(c[1], c[2], g, g)
                    IN  IF mk.is_marker THEN mk.color
                        ELSE IF c \in DOMAIN grid THEN Palette(grid[c])
                        ELSE Black] ]

NoCanvas == [width |-> 0, height |-> 0, cells |-> EmptyGrid]

\* img.getpixel((x, y)): the rectangle [c*P, c*P + P - 1] of cell c covers the
\* pixel; pixels outside every painted rectangle are black
getpixel(img, x, y) ==
    LET c == <<x \div PIXEL_SIZE, y \div PIXEL_SIZE>>
    IN  IF c \in DOMAIN img.cells THEN img.cells[c] ELSE Black

----------------------------------------------------------------------------
(* Palette *)

Inf == -1

Dist(a, b) == (a[1] - b[1]) * (a[1] - b[1]) + (a[2] - b[2]) * (a[2] - b[2])
                + (a[3] - b[3]) * (a[3] - b[3])

RECURSIVE ClosestLoop(_, _, _, _, _)
ClosestLoop(pixel_color, idx, last, min_dist, closest_idx) ==
    IF idx > last THEN closest_idx
    ELSE LET dist == Dist(pixel_color, Palette(idx))
         IN  IF min_dist = Inf \/ dist < min_dist
             THEN ClosestLoop(pixel_color, idx + 1, last, dist, idx)
             ELSE ClosestLoop(pixel_color, idx + 1, last, min_dist, closest_idx)

\* a mutant of find_closest_color: the loop stops one palette entry early
find_closest_color_short(pixel_color) ==
    ClosestLoop(pixel_color, 0, Len(PALETTE) - 2, Inf, 0)

\* _find_closest_color
find_closest_color(pixel_color) ==
    ClosestLoop(pixel_color, 0, Len(PALETTE) - 1, Inf, 0)

----------------------------------------------------------------------------
(* The sampling loop of image_to_file *)

SamplePoint(img, col, row) ==
    LET x == col * PIXEL_SIZE + PIXEL_SIZE \div 2
        y == row * PIXEL_SIZE + PIXEL_SIZE \div 2
    IN  find_closest_color(getpixel(img, x, y))

\* the data cells of one column from `row` down, top to bottom
RECURSIVE SampleCol(_, _, _, _, _)
SampleCol(col, row, w, h, img) ==
    IF row >= h THEN <<>>
    ELSE IF IsMarkerDec(col, row, w, h) THEN SampleCol(col, row + 1, w, h, img)
    ELSE <<SamplePoint(img, col, row)>> \o SampleCol(col, row + 1, w, h, img)

RECURSIVE SampleCols(_, _, _, _)
SampleCols(ncols, w, h, img) ==
    IF ncols = 0 THEN <<>>
    ELSE SampleCols(ncols - 1, w, h, img) \o SampleCol(ncols - 1, 0, w, h, img)

\* a mutant of Sample: the loop nest is swapped, columns outer
SampleColMajor(img, w, h) == SampleCols(w, w, h, img)

\* the inner loop: the indices appended for the data cells of one row from
\* `col` on, left to right
RECURSIVE SampleRow(_, _, _, _, _)
SampleRow(row, col, w, h, img) ==
    IF col >= w THEN <<>>
    ELSE IF IsMarkerDec(col, row, w, h) THEN SampleRow(row, col + 1, w, h, img)
    ELSE <<SamplePoint(img, col, row)>> \o SampleRow(row, col + 1, w, h, img)

\* the outer loop: color_indices after the first nrows rows, top to bottom
RECURSIVE SampleRows(_, _, _, _)
SampleRows(nrows, w, h, img) ==
    IF nrows = 0 THEN <<>>
    ELSE SampleRows(nrows - 1, w, h, img) \o SampleRow(nrows - 1, 0, w, h, img)

Sample(img, w, h) == SampleRows(h, w, h, img)

----------------------------------------------------------------------------
(* Initial states.  Each specification below drives one group of variables  *)
(* and leaves the other groups at rest.                                     *)

NoTamper == [kind |-> "none", a |-> 0, b |-> 0]

\* no first decoding of the written file yet
NoRef == [done |-> FALSE, ok |-> FALSE, out |-> <<>>, crc_ok |-> FALSE]

DecodeRest ==
    /\ dverbose = FALSE
    /\ dgrid = <<0, 0>>
    /\ dsyms = <<>>
    /\ dbytes = <<>>
    /\ hdr = NoHeader
    /\ data = <<>>
    /\ actual_crc = Zeros32
    /\ warned = FALSE
    /\ out = <<>>
    /\ ref = NoRef

EncodeRest ==
    /\ err = "none"
    /\ full_data = <<>>
    /\ color_indices = <<>>
    /\ grid_size = 0
    /\ data_grid = EmptyGrid
    /\ sent = NoCanvas
    /\ canvas = NoCanvas
    /\ tamper = NoTamper

MainRest ==
    /\ input = <<>>
    /\ compress = FALSE
    /\ pc = "idle"
    /\ EncodeRest
    /\ DecodeRest

GridRest == gn = 0 /\ gsize = 0 /\ gwidth = 0 /\ gdec = 0 /\ gpc = "idle"
PalRest  == pix = Black /\ pidx = 0 /\ ppc = "idle"
PackRest == pbytes = <<>> /\ psyms = <<>> /\ pout = <<>> /\ kpc = "idle"

Inputs == SeqsUpTo(ByteVals, MaxLen)

Init ==
    /\ input \in Inputs
    /\ compress \in BOOLEAN
    /\ pc = "start"
    /\ EncodeRest
    /\ DecodeRest
    /\ GridRest /\ PalRest /\ PackRest

----------------------------------------------------------------------------
(* Converter.file_to_image(input, output_image, compress, verbose)          *)

\* what file_to_image computes on the way to the saved image, in the order
\* the code computes it
EncodeSteps(bytes, flag) ==
    LET body     == IF flag THEN compress_data(bytes) ELSE bytes
        checksum == Crc32(body)
        header   == PackHeader(Len(body), Len(bytes), checksum, flag)
        full     == header \o body
        indices  == Pack(full)
        g        == ComputeGridSize(Len(indices))
        grid     == Assign(indices, g)
    IN  [ full_data     |-> full,
          color_indices |-> indices,
          grid_size     |-> g,
          data_grid     |-> grid,
          img           |-> Paint(grid, g) ]

file_to_image(verbose) ==
    /\ pc = "start"
    /\ IF compress /\ verbose /\ Len(input) = 0
       THEN \* 100*len(data)/original_size divides by zero
            /\ pc' = "enc_failed"
            /\ err' = "ZeroDivisionError"
            /\ UNCHANGED <<full_data, color_indices, grid_size, data_grid,
                           sent, canvas>>
       ELSE \E e \in {EncodeSteps(input, compress)} :
                /\ full_data' = e.full_data
                /\ color_indices' = e.color_indices
                /\ grid_size' = e.grid_size
                /\ data_grid' = e.data_grid
                /\ sent' = e.img
                /\ canvas' = e.img
                /\ pc' = "encoded"
                /\ err' = "none"
    /\ UNCHANGED <<input, compress, tamper>>
    /\ UNCHANGED <<decodeVars, ref>>
    /\ UNCHANGED <<gridVars, palVars, packVars>>

Encode == \E verbose \in BOOLEAN : file_to_image(verbose)

----------------------------------------------------------------------------
(* The image file between the two calls: it may reach image_to_file as      *)
(* written, with one cell repainted in another palette colour, with every   *)
(* cell that carries no frame symbol (the markers and the data cells after  *)
(* the last symbol) repainted in one palette colour, or with its pixel size *)
(* changed (cropped, or padded with black).                                 *)

\* a cell of a g x g grid lies in one of the four corner blocks
InCorner(c, g) ==
    /\ c[1] < MARKER_SIZE \/ c[1] >= g - MARKER_SIZE
    /\ c[2] < MARKER_SIZE \/ c[2] >= g - MARKER_SIZE

DataCells(g) == {c \in Cells(g, g) : ~InCorner(c, g)}

\* the number of data cells before c in row-major order
Rank(c, g) ==
    Cardinality({d \in DataCells(g) : d[2] < c[2] \/ (d[2] = c[2] /\ d[1] < c[1])})

ResizeDeltas == {0 - PIXEL_SIZE \div 2, 0, PIXEL_SIZE \div 2}

CorruptCell ==
    /\ pc = "encoded"
    /\ ref.done
    /\ tamper = NoTamper
    /\ \E c \in DOMAIN canvas.cells, k \in 0..(Len(PALETTE) - 1) :
          /\ Palette(k) # canvas.cells[c]
          /\ canvas' = [canvas EXCEPT !.cells[c] = Palette(k)]
          /\ tamper' = [kind |-> "cell", a |-> c[1], b |-> c[2]]
    /\ UNCHANGED <<input, compress, pc, err, full_data, color_indices, grid_size,
                   data_grid, sent>>
    /\ UNCHANGED <<decodeVars, ref>>
    /\ UNCHANGED <<gridVars, palVars, packVars>>

RepaintRest ==
    /\ pc = "encoded"
    /\ ref.done
    /\ tamper = NoTamper
    /\ \E k \in 0..(Len(PALETTE) - 1) :
          /\ canvas' = [canvas EXCEPT !.cells =
                [c \in DOMAIN canvas.cells |->
                    IF InCorner(c, grid_size) \/ Rank(c, grid_size) >= Len(color_indices)
                    THEN Palette(k) ELSE canvas.cells[c]]]
          /\ tamper' = [kind |-> "rest", a |-> k, b |-> 0]
    /\ UNCHANGED <<input, compress, pc, err, full_data, color_indices, grid_size,
                   data_grid, sent>>
    /\ UNCHANGED <<decodeVars, ref>>
    /\ UNCHANGED <<gridVars, palVars, packVars>>

Resize ==
    /\ pc = "encoded"
    /\ ref.done
    /\ tamper = NoTamper
    /\ \E dw \in ResizeDeltas, dh \in ResizeDeltas :
          /\ <<dw, dh>> # <<0, 0>>
          /\ canvas' = [canvas EXCEPT !.width = @ + dw, !.height = @ + dh]
          /\ tamper' = [kind |-> "resize", a |-> dw, b |-> dh]
    /\ UNCHANGED <<input, compress, pc, err, full_data, color_indices, grid_size,
                   data_grid, sent>>
    /\ UNCHANGED <<decodeVars, ref>>
    /\ UNCHANGED <<gridVars, palVars, packVars>>

----------------------------------------------------------------------------
(* Converter.image_to_file(input_image, output_file, verbose)               *)

\* what image_to_file computes up to the header test, in the order the code
\* computes it
DecodeSample(img) ==
    LET grid_width  == img.width \div PIXEL_SIZE
        grid_height == img.height \div PIXEL_SIZE
        indices     == Sample(img, grid_width, grid_height)
    IN  [ grid       |-> <<grid_width, grid_height>>,
          indices    |-> indices,
          byte_array |-> Unpack(indices) ]

\* and from the parsed header on
DecodeFrame(byte_array) ==
    LET h      == UnpackHeader(Slice(byte_array, 0, HeaderSize))
        body   == SliceBody(byte_array, h.compressed_size)
    IN  [ hdr    |-> h,
          data   |-> body,
          actual |-> Crc32(body),
          plain  |-> IF h.compress_flag THEN decompress_data(body)
                     ELSE [ok |-> TRUE, bytes |-> body] ]

\* image_to_file on the image the recipient holds
image_to_file ==
    /\ pc = "encoded"
    /\ \E s \in {DecodeSample(canvas)} :
           /\ dgrid' = s.grid
           /\ dsyms' = s.indices
           /\ dbytes' = s.byte_array
           /\ IF Len(s.byte_array) < HeaderSize
              THEN \* raise ValueError("Image too small for valid header")
                   /\ pc' = "dec_failed"
                   /\ err' = "ValueError"
                   /\ \E verbose \in BOOLEAN : dverbose' = verbose
                   /\ UNCHANGED <<hdr, data, actual_crc, warned, out>>
              ELSE \E f \in {DecodeFrame(s.byte_array)} :
                       /\ hdr' = f.hdr
                       /\ data' = f.data
                       /\ actual_crc' = f.actual
                       /\ \E verbose \in BOOLEAN :
                              /\ dverbose' = verbose
                              /\ warned' = (verbose /\ f.actual # f.hdr.expected_crc)
                       /\ IF f.plain.ok
                          THEN /\ out' = f.plain.bytes
                               /\ pc' = "decoded"
                               /\ err' = "none"
                          ELSE \* zlib.error is re-raised, nothing is written
                               /\ out' = <<>>
                               /\ pc' = "dec_failed"
                               /\ err' = "zlib.error"
    /\ UNCHANGED <<input, compress, full_data, color_indices, grid_size, data_grid,
                   sent, canvas, tamper, ref>>
    /\ UNCHANGED <<gridVars, palVars, packVars>>

\* image_to_file on the image as file_to_image wrote it, before it travels
image_to_file_written ==
    /\ pc = "encoded"
    /\ tamper = NoTamper
    /\ ~ref.done
    /\ \E s \in {DecodeSample(sent)} :
           IF Len(s.byte_array) < HeaderSize
           THEN ref' = [done |-> TRUE, ok |-> FALSE, out |-> <<>>, crc_ok |-> FALSE]
           ELSE \E f \in {DecodeFrame(s.byte_array)} :
                    ref' = [ done   |-> TRUE,
                             ok     |-> f.plain.ok,
                             out    |-> IF f.plain.ok THEN f.plain.bytes ELSE <<>>,
                             crc_ok |-> f.actual = f.hdr.expected_crc ]
    /\ UNCHANGED <<input, compress, pc, err, full_data, color_indices, grid_size,
                   data_grid, sent, canvas, tamper>>
    /\ UNCHANGED decodeVars
    /\ UNCHANGED <<gridVars, palVars, packVars>>

Next == Encode \/ image_to_file_written \/ CorruptCell \/ RepaintRest \/ Resize \/ image_to_file

Spec == Init /\ [][Next]_vars

----------------------------------------------------------------------------
(* The grid size alone: count_data_positions and the search loop of        *)
(* file_to_image, the canvas size it paints, and the grid image_to_file    *)
(* derives from that size.                                                  *)

GridInit ==
    /\ gn \in 0..MaxSymbols
    /\ gsize = 0 /\ gwidth = 0 /\ gdec = 0
    /\ gpc = "start"
    /\ MainRest /\ PalRest /\ PackRest

GridEncode ==
    /\ gpc = "start"
    /\ gsize' = ComputeGridSize(gn)
    /\ gwidth' = ComputeGridSize(gn) * PIXEL_SIZE
    /\ gpc' = "painted"
    /\ UNCHANGED <<gn, gdec, mainVars, palVars, packVars>>

GridDecode ==
    /\ gpc = "painted"
    /\ gdec' = gwidth \div PIXEL_SIZE
    /\ gpc' = "decoded"
    /\ UNCHANGED <<gn, gsize, gwidth, mainVars, palVars, packVars>>

GridNext == GridEncode \/ GridDecode

SpecGrid == GridInit /\ [][GridNext]_vars

----------------------------------------------------------------------------
(* _find_closest_color alone, over sampled pixel colours                    *)

Channels == (0..Noise) \cup ((255 - Noise)..255) \cup {127, 128}

PalInit ==
    /\ pix \in Channels \X Channels \X Channels
    /\ pidx = 0
    /\ ppc = "start"
    /\ MainRest /\ GridRest /\ PackRest

PalMatch ==
    /\ ppc = "start"
    /\ pidx' = find_closest_color(pix)
    /\ ppc' = "done"
    /\ UNCHANGED <<pix, mainVars, gridVars, packVars>>

PalNext == PalMatch

SpecPalette == PalInit /\ [][PalNext]_vars

----------------------------------------------------------------------------
(* The bit packer alone: the packing of file_to_image, then the unpacking  *)
(* of image_to_file                                                         *)

PackInit ==
    /\ pbytes \in SeqsUpTo(PackByteVals, MaxPackLen)
    /\ psyms = <<>> /\ pout = <<>>
    /\ kpc = "start"
    /\ MainRest /\ GridRest /\ PalRest

PackStep ==
    /\ kpc = "start"
    /\ psyms' = Pack(pbytes)
    /\ kpc' = "packed"
    /\ UNCHANGED <<pbytes, pout, mainVars, gridVars, palVars>>

UnpackStep ==
    /\ kpc = "packed"
    /\ pout' = Unpack(psyms)
    /\ kpc' = "unpacked"
    /\ UNCHANGED <<pbytes, psyms, mainVars, gridVars, palVars>>

PackNext == PackStep \/ UnpackStep

SpecPack == PackInit /\ [][PackNext]_vars

----------------------------------------------------------------------------
(* Vocabulary of the properties *)

Done == pc \in {"decoded", "dec_failed"}
Produced == pc \in {"encoded", "decoded", "dec_failed"}

CeilDiv(a, b) == (a + b - 1) \div b

Zeros(n) == Seq1([i \in 1..n |-> 0])

Abs(x) == IF x < 0 THEN 0 - x ELSE x

\* bit j (0-based, most significant first) of a byte sequence
BitOf(bs, j) == (bs[(j \div 8) + 1] \div Pow2(7 - (j % 8))) % 2

\* the cells on which the decoded canvas differs from the encoder's
Repainted == {c \in DOMAIN sent.cells : canvas.cells[c] # sent.cells[c]}

SameSize == canvas.width = sent.width /\ canvas.height = sent.height

\* the three bits of symbol r (0-based) all lie in the bits [lo, hi)
SymbolWithin(r, lo, hi) == lo <= 3 * r /\ 3 * r + 2 < hi

----------------------------------------------------------------------------
(* C1 *)

\* C1: decoding the canvas file_to_image produced, as written, succeeds and
\* returns exactly the input bytes, for either compress setting.
RoundTrip ==
    (Done /\ tamper = NoTamper) => (pc = "decoded" /\ out = input)

RoundTripWitness ==
    /\ pc = "decoded" /\ tamper = NoTamper
    /\ compress /\ input = <<255>> /\ out = <<255>>

----------------------------------------------------------------------------
(* C2 *)

\* C2: for the empty input, encoding completes without error for either
\* compress setting and either verbose setting, the uncompressed frame holds
\* body_length 0, the grid is the smallest that holds the symbols, and
\* decoding the canvas returns zero bytes without error.
EmptyInputEncodes ==
    input = <<>> =>
        /\ pc # "enc_failed"
        /\ Produced =>
              /\ ~compress => SubSeq(full_data, 1, 4) = <<0, 0, 0, 0>>
              /\ grid_size * grid_size - 4 * MARKER_SIZE * MARKER_SIZE >= Len(color_indices)
              /\ (grid_size - 1) * (grid_size - 1) - 4 * MARKER_SIZE * MARKER_SIZE
                     < Len(color_indices)
        /\ (Done /\ tamper = NoTamper) => (pc = "decoded" /\ out = <<>>)

----------------------------------------------------------------------------
(* C3 *)

\* C3: the encoder's grid size is the smallest g >= 2*MARKER_SIZE with
\* g*g - 4*MARKER_SIZE^2 >= n, no smaller symbol count gets a larger grid,
\* and the decoder derives the same g from the canvas width.
GridSizeExact ==
    gpc \in {"painted", "decoded"} =>
        /\ gsize >= 2 * MARKER_SIZE
        /\ gsize * gsize - 4 * MARKER_SIZE * MARKER_SIZE >= gn
        /\ \A g \in (2 * MARKER_SIZE)..(gsize - 1) :
               g * g - 4 * MARKER_SIZE * MARKER_SIZE < gn
        /\ \A k \in 0..gn : ComputeGridSize(k) <= gsize
        /\ gpc = "decoded" => gdec = gsize

GridSizeWitness ==
    gpc = "decoded" /\ gn = 46 /\ gsize = 10 /\ gdec = 10

----------------------------------------------------------------------------
(* C4 *)

\* C4: decoding fails, with no output, whenever the canvas width or height
\* is not a multiple of PIXEL_SIZE.
MalformedImageRejected ==
    (Done /\ (canvas.width % PIXEL_SIZE # 0 \/ canvas.height % PIXEL_SIZE # 0))
        => pc = "dec_failed"

----------------------------------------------------------------------------
(* C5 *)

\* C5: decoding aborts when fewer than 13 bytes were unpacked, aborts when
\* fewer than body_length bytes follow the header, and never returns a body
\* shorter than the header's body_length.
TruncationFatal ==
    Done =>
        /\ Len(dbytes) < HeaderSize => pc = "dec_failed"
        /\ (Len(dbytes) >= HeaderSize
               /\ ~AtLeast(Len(dbytes) - HeaderSize, hdr.compressed_size))
             => pc = "dec_failed"
        /\ pc = "decoded" => AtLeast(Len(data), hdr.compressed_size)

----------------------------------------------------------------------------
(* C6 *)

TamperedDataCell ==
    /\ tamper.kind = "cell"
    /\ ~InCorner(<<tamper.a, tamper.b>>, grid_size)

ChecksumReported ==
    /\ pc = "decoded"
    /\ actual_crc # hdr.expected_crc
    /\ dverbose => warned

TamperedChecksumOrBody ==
    /\ TamperedDataCell
    /\ LET r == Rank(<<tamper.a, tamper.b>>, grid_size)
       IN  \/ SymbolWithin(r, 64, 96)
           \/ SymbolWithin(r, 8 * HeaderSize, 8 * Len(full_data))

----------------------------------------------------------------------------
(* C7 *)

SqDist(a, b) ==
    (a[1] - b[1]) * (a[1] - b[1]) + (a[2] - b[2]) * (a[2] - b[2])
        + (a[3] - b[3]) * (a[3] - b[3])

Near(a, b) == \A ch \in 1..3 : Abs(a[ch] - b[ch]) <= Noise

\* C7: _find_closest_color returns an index 0..7 of minimum squared
\* distance, the lowest such index, and returns s for every colour within
\* Noise per channel of PALETTE[s] (PALETTE[s] itself included).
PaletteQuantization ==
    ppc = "done" =>
        /\ pidx \in 0..7
        /\ \A j \in 0..7 : SqDist(pix, Palette(pidx)) <= SqDist(pix, Palette(j))
        /\ \A j \in 0..(pidx - 1) : SqDist(pix, Palette(j)) > SqDist(pix, Palette(pidx))
        /\ \A s \in 0..7 : Near(pix, Palette(s)) => pidx = s

PaletteWitness ==
    /\ ppc = "done"
    /\ pix = <<255 - Noise, 255, Noise>>
    /\ pidx = 4

----------------------------------------------------------------------------
(* C8 *)

\* C8: packing gives ceil(8*len/3) symbols in 0..7 that hold the bits of the
\* bytes most significant first, three per symbol, zero-padded; unpacking
\* them gives a byte sequence that starts with the bytes packed.
PackRoundTrip ==
    /\ kpc \in {"packed", "unpacked"} =>
          /\ Len(psyms) = CeilDiv(8 * Len(pbytes), 3)
          /\ \A i \in 1..Len(psyms) : psyms[i] \in 0..7
          /\ \A j \in 0..(3 * Len(psyms) - 1) :
                 (psyms[(j \div 3) + 1] \div Pow2(2 - (j % 3))) % 2
                     = IF j < 8 * Len(pbytes) THEN BitOf(pbytes, j) ELSE 0
    /\ kpc = "unpacked" =>
          /\ Len(pout) >= Len(pbytes)
          /\ SubSeq(pout, 1, Len(pbytes)) = pbytes

PackWitness ==
    /\ kpc = "unpacked"
    /\ pbytes = <<1, 170>>
    /\ psyms = <<0, 0, 3, 2, 5, 0>>
    /\ pout = <<1, 170>>

----------------------------------------------------------------------------
(* C9 *)

\* C9: on the encoder's grid the assignment loop, _get_marker_color and the
\* sampling loop call the same cells markers, namely the corner blocks; the
\* i-th data cell in row-major order holds the i-th symbol, no symbol is
\* left out; unassigned data cells are painted black; and the decoder
\* samples from the canvas as written the symbols followed by zeros only.
ScanOrderAgreement ==
    (Produced /\ tamper = NoTamper) =>
        LET g == grid_size
        IN  /\ \A c \in Cells(g, g) :
                   /\ IsMarkerEnc(c[1], c[2], g, g) = InCorner(c, g)
                   /\ IsMarkerDec(c[1], c[2], g, g) = InCorner(c, g)
                   /\ get_marker_color(c[1], c[2], g, g).is_marker = InCorner(c, g)
            /\ DOMAIN data_grid
                   = {c \in DataCells(g) : Rank(c, g) < Len(color_indices)}
            /\ \A c \in DOMAIN data_grid :
                   /\ data_grid[c] = color_indices[Rank(c, g) + 1]
                   /\ sent.cells[c] = Palette(data_grid[c])
            /\ \A c \in DataCells(g) \ DOMAIN data_grid : sent.cells[c] = Black
            /\ Done =>
                   dsyms = color_indices
                             \o Zeros(Cardinality(DataCells(g)) - Len(color_indices))

ScanOrderWitness ==
    /\ pc = "decoded" /\ tamper = NoTamper
    /\ input = <<65>> /\ ~compress
    /\ Len(color_indices) = 38
    /\ Len(dsyms) = 45
    /\ Cardinality(DOMAIN data_grid) = 38

----------------------------------------------------------------------------
(* C10 *)

\* the number of symbols that carry the header and the declared body
FrameSymbols ==
    IF hdr.compressed_size.hi > 0 THEN Len(dsyms)
    ELSE CeilDiv(8 * (HeaderSize + hdr.compressed_size.lo), 3)

\* the two canvases agree on every data cell that carries a frame symbol
AgreeOnFrame ==
    /\ SameSize
    /\ \A c \in Repainted :
           InCorner(c, grid_size) \/ Rank(c, grid_size) >= FrameSymbols

\* C10: a canvas of the same size that agrees with the encoder's canvas on
\* the data cells carrying the first ceil(8*(13+body_length)/3) symbols
\* decodes to the same bytes with the same checksum verdict as that canvas.
TrailingCellsIgnored ==
    (Done /\ ref.done /\ AgreeOnFrame) =>
        /\ (pc = "decoded") = ref.ok
        /\ out = ref.out
        /\ (actual_crc = hdr.expected_crc) = ref.crc_ok

TrailingCellsWitness ==
    /\ pc = "decoded" /\ tamper.kind = "rest" /\ tamper.a = 5
    /\ AgreeOnFrame
    /\ Cardinality(Repainted) > 4 * MARKER_SIZE * MARKER_SIZE
    /\ compress /\ input = <<65>> /\ out = input

====
